---- MODULE Spec2Model ----
(***************************************************************************)
(* A model of the stock-news Discord bot: the file-backed dedup cache      *)
(* (NewsCacheManager), the two-source merge (NewsAPIClient.fetch_news),    *)
(* the polling cycle (NewsHandler.process_and_send_news) and the market    *)
(* data fetched by the report cycle (ReportScheduler.generate_report).     *)
(*                                                                         *)
(* Encodings.  A news item is a record [id, title, content, created_at,    *)
(* src].  Identifiers are the integers 1..n (totally ordered, as the       *)
(* strings the sources send are); NoId stands for an item whose 'id' is    *)
(* missing or null (news.get('id') is None).  src is the '_source_api' tag *)
(* ("none" before fetch_news has tagged the item).  A title is a sequence  *)
(* of syllables, so that the substring test of _is_summary_style_post can  *)
(* be computed ("yo","yak" romanise the two syllables of the word the code *)
(* looks for).  datetime.now() reads the variable now.                     *)
(***************************************************************************)
EXTENDS Integers, Sequences, FiniteSets

\* ---------------------------------------------------------------- bounds
MaxId == 2
MaxLen == 2
MaxClock == 1
MaxMergeId == 5
MaxCommunityPage == 3
MaxNewsPage == 2
MaxPollId == 1
MaxPollPage == 1
MaxPrice == 2

\* ------------------------------------------------------------- encodings
NoId == 0
None == -1

\* An identifier that cannot be a member of a set (a JSON list).
Unhashable == -3

Ids == 1..MaxId

TitlePlain == <<"si", "jang">>
TitleDigest == <<"jang", "jeon", "yo", "yak">>
Titles == {TitlePlain, TitleDigest}

Item(id, title) ==
  [id |-> id, title |-> title, content |-> "c", created_at |-> "t", src |-> "none"]

\* The items of the batches handed directly to the cache manager's methods:
\* one without an identifier, one per identifier, and a second, different
\* item under identifier 1.
DirectItems ==
  {Item(NoId, TitlePlain), Item(1, TitleDigest)} \cup {Item(i, TitlePlain) : i \in Ids}

SeqsUpTo(S, n) == UNION {[1..k -> S] : k \in 0..n}

DirectBatches == SeqsUpTo(DirectItems, MaxLen)

VARIABLES
  news_cache,          \* NewsCacheManager.news_cache
  last_response,       \* NewsCacheManager.last_response
  news_cache_file,     \* cache/news_cache.json
  last_response_file,  \* cache/last_response.json
  sent_summaries,      \* the identifiers mark_sent_summary has recorded
  now,                 \* the wall clock datetime.now() reads
  batch,               \* the 'posts' of the response the caller holds
  call,                \* the last call made on the cache manager, and the one before
  responses,           \* what the two sources answered to fetch_news
  pc,                  \* where process_and_send_news stands
  todo,                \* the posts the running send loop has still to visit
  summary_log,         \* the (identifier, channel) pairs a pointer message went to
  resent,              \* whether a pointer message went to a pair already in summary_log
  official_log,        \* the identifiers of the items handed to _send_news_to_channel
  attempts,            \* the sends the running polling cycle has attempted
  collector,           \* the MarketDataCollector of the running report cycle
  market_data,         \* the market_data of the running report cycle
  rpc,                 \* where generate_report stands
  last_good,           \* per indicator, the value last parsed from a fresh answer
  fetch_failed,        \* per indicator, whether every request of this cycle returned None
  serving,             \* what the endpoints hold ready for a getter called directly
  probe,               \* what a getter called directly was seen to do
  summary,             \* the summary of the running report cycle, and how it came
  digest,              \* the report of the last report cycle, and the channels it reached
  selection,           \* a call of the report's fetch or of its selection: inputs and outcome
  classified,          \* a post handed to the classifier, and the labels it got
  delivery             \* a delivery of items to channels: inputs and outcome

cacheVars == <<news_cache, last_response, news_cache_file, last_response_file>>
pollVars == <<responses, pc, todo, summary_log, resent, official_log, attempts>>
reportVars ==
  <<collector, market_data, rpc, last_good, fetch_failed, serving, probe, summary, digest>>
directVars == <<selection, classified, delivery>>
vars ==
  <<news_cache, last_response, news_cache_file, last_response_file, sent_summaries,
    now, batch, call, responses, pc, todo, summary_log, resent, official_log,
    attempts, collector, market_data, rpc, last_good, fetch_failed, serving, probe,
    summary, digest, selection, classified, delivery>>

\* ------------------------------------------------------ NewsCacheManager
EmptyNewsCache == [news_ids |-> {}, last_update |-> None, total_processed |-> 0]

NoHash == [kind |-> "none", data |-> <<>>]
FailedHash == [kind |-> "failed", data |-> <<>>]

EmptyLastResponse == [timestamp |-> None, response_hash |-> NoHash, news_count |-> 0]

NoFile(doc) == [exists |-> FALSE, doc |-> doc]
FileOf(doc) == [exists |-> TRUE, doc |-> doc]

\* The four fields of an item the fingerprint reads.
HashedFields(news) ==
  [id |-> news.id, title |-> news.title, content |-> news.content,
   created_at |-> news.created_at]

RECURSIVE InsertById(_, _)
InsertById(sorted, x) ==
  IF sorted = <<>> THEN <<x>>
  ELSE IF x.id < sorted[Len(sorted)].id
       THEN Append(InsertById(SubSeq(sorted, 1, Len(sorted) - 1), x), sorted[Len(sorted)])
       ELSE Append(sorted, x)

\* list.sort(key=id): a stable sort, equal keys keep their input order.
RECURSIVE SortById(_)
SortById(s) ==
  IF s = <<>> THEN <<>>
  ELSE InsertById(SortById(SubSeq(s, 1, Len(s) - 1)), s[Len(s)])

\* Comparing a None key with any other key raises TypeError.
SortRaises(posts) == Len(posts) >= 2 /\ \E i \in 1..Len(posts) : posts[i].id = NoId

\* md5 over json.dumps of the sorted list: one value per distinct sorted list;
\* the except branch returns "".
GenerateResponseHash(posts) ==
  IF SortRaises(posts) THEN FailedHash
  ELSE [kind |-> "md5",
        data |-> SortById([i \in 1..Len(posts) |-> HashedFields(posts[i])])]

\* get_new_news with the seen-set never updated.
RECURSIVE ScanNewForgetful(_, _)
ScanNewForgetful(posts, cache) ==
  IF posts = <<>> THEN [new_news |-> <<>>, cache |-> cache]
  ELSE LET before == ScanNewForgetful(SubSeq(posts, 1, Len(posts) - 1), cache)
           news == posts[Len(posts)]
       IN IF news.id # NoId /\ news.id \notin before.cache.news_ids
          THEN [new_news |-> Append(before.new_news, news),
                cache |-> [before.cache EXCEPT !.total_processed = @ + 1]]
          ELSE before

\* get_new_news with new_news.insert(0, news) in place of new_news.append(news).
RECURSIVE ScanNewNewestFirst(_, _)
ScanNewNewestFirst(posts, cache) ==
  IF posts = <<>> THEN [new_news |-> <<>>, cache |-> cache]
  ELSE LET before == ScanNewNewestFirst(SubSeq(posts, 1, Len(posts) - 1), cache)
           news == posts[Len(posts)]
       IN IF news.id # NoId /\ news.id \notin before.cache.news_ids
          THEN [new_news |-> <<news>> \o before.new_news,
                cache |-> [before.cache EXCEPT
                             !.news_ids = @ \cup {news.id},
                             !.total_processed = @ + 1]]
          ELSE before

\* The loop of get_new_news over the batch, from the left.
RECURSIVE ScanNew(_, _)
ScanNew(posts, cache) ==
  IF posts = <<>> THEN [new_news |-> <<>>, cache |-> cache]
  ELSE LET before == ScanNew(SubSeq(posts, 1, Len(posts) - 1), cache)
           news == posts[Len(posts)]
       IN IF news.id # NoId /\ news.id \notin before.cache.news_ids
          THEN [new_news |-> Append(before.new_news, news),
                cache |-> [before.cache EXCEPT
                             !.news_ids = @ \cup {news.id},
                             !.total_processed = @ + 1]]
          ELSE before

NoCall == [op |-> "init", ret |-> <<>>, changed |-> FALSE]

NoCalls == [op |-> "init", ret |-> <<>>, changed |-> FALSE, prev |-> NoCall]

\* What a call did, with what the call before it did.
CallRecord(op, ret, changed) ==
  [op |-> op, ret |-> ret, changed |-> changed,
   prev |-> [op |-> call.op, ret |-> call.ret, changed |-> call.changed]]

\* The first position whose identifier makes 'news_id not in news_ids' raise
\* TypeError, or 0: the loop ends there and the call returns through its except
\* branch.
RaisesAt(posts) ==
  IF \E i \in 1..Len(posts) : posts[i].id = Unhashable
  THEN CHOOSE i \in 1..Len(posts) :
         /\ posts[i].id = Unhashable
         /\ \A j \in 1..(i - 1) : posts[j].id # Unhashable
  ELSE 0

\* The items the loop handles before it ends.
Reached(posts) ==
  IF RaisesAt(posts) = 0 THEN posts ELSE SubSeq(posts, 1, RaisesAt(posts) - 1)

\* get_new_news keeping in memory only what _save_news_cache could write.
GetNewNewsIfSaved(posts, io_ok) ==
  LET scan == ScanNew(Reached(posts), news_cache)
      raised == RaisesAt(posts) # 0
      cache == IF scan.new_news # <<>> /\ ~raised
               THEN [scan.cache EXCEPT !.last_update = now]
               ELSE scan.cache
  IN /\ news_cache' = IF io_ok THEN cache ELSE news_cache
     /\ news_cache_file' = IF scan.new_news # <<>> /\ ~raised /\ io_ok
                           THEN FileOf(cache) ELSE news_cache_file
     /\ call' = CallRecord("get_new_news", IF raised THEN <<>> ELSE scan.new_news, FALSE)
     /\ UNCHANGED <<last_response, last_response_file>>

\* get_new_news(current_response); io_ok: whether _save_news_cache could write.
GetNewNews(posts, io_ok) ==
  LET scan == ScanNew(Reached(posts), news_cache)
      raised == RaisesAt(posts) # 0
      cache == IF scan.new_news # <<>> /\ ~raised
               THEN [scan.cache EXCEPT !.last_update = now]
               ELSE scan.cache
  IN /\ news_cache' = cache
     /\ news_cache_file' = IF scan.new_news # <<>> /\ ~raised /\ io_ok
                           THEN FileOf(cache) ELSE news_cache_file
     /\ call' = CallRecord("get_new_news", IF raised THEN <<>> ELSE scan.new_news, FALSE)
     /\ UNCHANGED <<last_response, last_response_file>>

\* has_response_changed storing the new hash alone, the timestamp and count kept.
HasResponseChangedHashOnly(posts, io_ok) ==
  LET current_hash == GenerateResponseHash(posts)
      changed == current_hash # last_response.response_hash
      response == [last_response EXCEPT !.response_hash = current_hash]
  IN /\ last_response' = IF changed THEN response ELSE last_response
     /\ last_response_file' = IF changed /\ io_ok
                              THEN FileOf(response) ELSE last_response_file
     /\ call' = CallRecord("has_response_changed", <<>>, changed)
     /\ UNCHANGED <<news_cache, news_cache_file>>

\* has_response_changed(current_response); io_ok: whether _save_last_response
\* could write.
HasResponseChanged(posts, io_ok) ==
  LET current_hash == GenerateResponseHash(posts)
      changed == current_hash # last_response.response_hash
      response == [timestamp |-> now, response_hash |-> current_hash,
                   news_count |-> Len(posts)]
  IN /\ last_response' = IF changed THEN response ELSE last_response
     /\ last_response_file' = IF changed /\ io_ok
                              THEN FileOf(response) ELSE last_response_file
     /\ call' = CallRecord("has_response_changed", <<>>, changed)
     /\ UNCHANGED <<news_cache, news_cache_file>>

\* The file os.remove fails on, if any.
RemovalFailures == {"none", "news_cache", "last_response"}

\* clear_cache() removing the files and leaving the memory as it is.
ClearCacheFilesOnly(fails) ==
  /\ UNCHANGED <<news_cache, last_response>>
  /\ news_cache_file' = NoFile(EmptyNewsCache)
  /\ last_response_file' = NoFile(EmptyLastResponse)
  /\ call' = CallRecord("clear_cache", <<>>, TRUE)

\* clear_cache(): memory reset, then the files that exist removed one after the
\* other; a removal that raises ends the call, which returns False (recorded
\* as call.changed).
ClearCache(fails) ==
  LET first_raises == fails = "news_cache" /\ news_cache_file.exists
      second_raises == fails = "last_response" /\ last_response_file.exists
  IN /\ news_cache' = EmptyNewsCache
     /\ last_response' = EmptyLastResponse
     /\ news_cache_file' = IF first_raises THEN news_cache_file
                           ELSE NoFile(EmptyNewsCache)
     /\ last_response_file' = IF first_raises \/ second_raises THEN last_response_file
                              ELSE NoFile(EmptyLastResponse)
     /\ call' = CallRecord("clear_cache", <<>>, ~(first_raises \/ second_raises))

Tick ==
  /\ now < MaxClock
  /\ now' = now + 1
  /\ UNCHANGED <<directVars, cacheVars, sent_summaries, batch, call, pollVars, reportVars>>

\* The seen-set after get_new_news has seen the identifiers S and saved them.
SeenCache(S) ==
  IF S = {} THEN EmptyNewsCache
  ELSE [news_ids |-> S, last_update |-> 0, total_processed |-> Cardinality(S)]

\* The fingerprint record after has_response_changed has stored that of posts.
StoredResponse(posts) ==
  [timestamp |-> 0, response_hash |-> GenerateResponseHash(posts),
   news_count |-> Len(posts)]

\* ---------------------------------------------------------- NewsAPIClient
IdsOf(posts) == {posts[i].id : i \in 1..Len(posts)} \ {NoId}

\* What one source answered: 200 with a list of posts, another status, or an
\* exception (a timeout, a connection error).
Answer(kind, posts) == [kind |-> kind, posts |-> posts]

NoAnswer == Answer("none", <<>>)

FailureKinds == {"http_error", "exception"}

\* _fetch_community_news / _fetch_news_api: the JSON body on 200, else None.
Fetched(answer) == [is_dict |-> answer.kind = "ok", posts |-> answer.posts]

\* A page read front to back.
NotReversed(s) == s

Reversed(s) == [i \in 1..Len(s) |-> s[Len(s) + 1 - i]]

Tagged(s, api) == [i \in 1..Len(s) |-> [s[i] EXCEPT !.src = api]]

\* The de-duplication loop of fetch_news, from the left.
RECURSIVE UniquePosts(_)
UniquePosts(merged_posts) ==
  IF merged_posts = <<>> THEN <<>>
  ELSE LET before == UniquePosts(SubSeq(merged_posts, 1, Len(merged_posts) - 1))
           post == merged_posts[Len(merged_posts)]
       IN IF post.id # NoId /\ post.id \notin IdsOf(before)
          THEN Append(before, post)
          ELSE before

\* The News API's posts appended before the Community API's.
MergedPostsNewsFirst(community_data, news_data) ==
  (IF news_data.is_dict THEN Tagged(Reversed(news_data.posts), "news") ELSE <<>>)
  \o (IF community_data.is_dict
      THEN Tagged(Reversed(community_data.posts), "community") ELSE <<>>)

MergedPosts(community_data, news_data) ==
  (IF community_data.is_dict
   THEN Tagged(Reversed(community_data.posts), "community") ELSE <<>>)
  \o (IF news_data.is_dict THEN Tagged(Reversed(news_data.posts), "news") ELSE <<>>)

\* Only the successful answers are merged; a failure of either empties all.
FetchNewsAllOrNothing(community_answer, news_answer) ==
  IF community_answer.kind = "ok" /\ news_answer.kind = "ok"
  THEN UniquePosts(MergedPosts(Fetched(community_answer), Fetched(news_answer)))
  ELSE <<>>

\* fetch_news(): data['posts'].
FetchNews(community_answer, news_answer) ==
  UniquePosts(MergedPosts(Fetched(community_answer), Fetched(news_answer)))

\* No polling cycle is running.
PollIdle ==
  /\ responses = [community |-> NoAnswer, news |-> NoAnswer]
  /\ pc = "idle"
  /\ todo = <<>>
  /\ summary_log = {}
  /\ resent = FALSE
  /\ official_log = {}
  /\ attempts = {}

\* ---------------------------------------------------- MarketDataCollector
MaxRetries == 3

\* session.get raised instead of answering with a status.
Raised == 0

\* 404 taken for a status worth another attempt.
RetriedWithNotFound == {404, 429, 500, 502, 503, 504}

Retried == {429, 500, 502, 503, 504}

Statuses == {200, 429, 503, 404, Raised}

\* The statuses the attempts of one _request_with_backoff call would meet.
AttemptRuns == [1..MaxRetries -> Statuses]

NoData == [kind |-> "none", value |-> 0]

\* A JSON body: one carrying a value, one whose result list is empty, or one
\* whose fields make the parsing raise (a null 'chart', a value int() rejects).
Bodies ==
  {[kind |-> "quote", value |-> v] : v \in 1..MaxPrice}
    \cup {[kind |-> "empty", value |-> 0], [kind |-> "malformed", value |-> 0]}

\* The loop of _request_with_backoff from one attempt on: what it returns and
\* how many session.get calls it makes.
RECURSIVE RequestFrom(_, _, _)
RequestFrom(attempt, run, body) ==
  IF attempt > MaxRetries THEN [data |-> NoData, requests |-> 0]
  ELSE IF run[attempt] = 200 THEN [data |-> body, requests |-> 1]
  ELSE IF run[attempt] = Raised \/ run[attempt] \in Retried
       THEN LET rest == RequestFrom(attempt + 1, run, body)
            IN [data |-> rest.data, requests |-> rest.requests + 1]
  ELSE [data |-> NoData, requests |-> 1]

\* One attempt and no more.
RequestWithoutRetry(run, body) ==
  [data |-> IF run[1] = 200 THEN body ELSE NoData, requests |-> 1]

RequestWithBackoff(run, body) == RequestFrom(1, run, body)

NoParsed == [kind |-> "none", value |-> 0, stale |-> FALSE]

Parsed(data) == [kind |-> "parsed", value |-> data.value, stale |-> FALSE]

\* A fallback that hands the cached value out unmarked and forgets it.
ParsedOrCachedForgetting(data, cache) ==
  IF data.kind = "quote"
  THEN [ret |-> Parsed(data), cache |-> Parsed(data), failed |-> FALSE]
  ELSE [ret |-> cache, cache |-> NoParsed, failed |-> data = NoData]

\* The tail shared by get_nasdaq_price and get_fear_greed_index: parse and
\* cache a usable body, else fall back on the cache, else None.
ParsedOrCached(data, cache) ==
  IF data.kind = "quote"
  THEN [ret |-> Parsed(data), cache |-> Parsed(data), failed |-> FALSE]
  ELSE IF data.kind = "malformed"
  THEN [ret |-> NoParsed, cache |-> cache, failed |-> FALSE]
  ELSE [ret |-> IF cache # NoParsed THEN [cache EXCEPT !.stale = TRUE] ELSE NoParsed,
        cache |-> cache,
        failed |-> data = NoData]

NoRequests == [primary |-> 0, fallback |-> 0, fear_greed |-> 0]

GetNasdaqPrice(cache, primary, primary_body, fallback, fallback_body) ==
  LET first == RequestWithBackoff(primary, primary_body)
      second == RequestWithBackoff(fallback, fallback_body)
      data == IF first.data = NoData THEN second.data ELSE first.data
      got == ParsedOrCached(data, cache)
  IN [ret |-> got.ret, cache |-> got.cache, failed |-> got.failed, data |-> data,
      requests |-> [NoRequests EXCEPT
                      !.primary = first.requests,
                      !.fallback = IF first.data = NoData THEN second.requests ELSE 0]]

GetFearGreedIndex(cache, run, body) ==
  LET only == RequestWithBackoff(run, body)
      got == ParsedOrCached(only.data, cache)
  IN [ret |-> got.ret, cache |-> got.cache, failed |-> got.failed, data |-> only.data,
      requests |-> [NoRequests EXCEPT !.fear_greed = only.requests]]

Indicators == {"nasdaq", "fear_greed"}

\* MarketDataCollector(): both caches None.
NewCollector == [nasdaq_cache |-> NoParsed, fear_greed_cache |-> NoParsed]

NoSnapshot == [nasdaq |-> NoParsed, fear_greed |-> NoParsed]

\* What one endpoint holds ready: the status of each attempt, and the body that
\* goes with a 200.
Served(run, body) == [run |-> run, body |-> body]

Unserved == Served([attempt \in 1..MaxRetries |-> 404], [kind |-> "empty", value |-> 0])

\* Whether some attempt of the run gets to a 200.
RunAnswers(run) ==
  \E i \in 1..MaxRetries :
    run[i] = 200 /\ \A j \in 1..(i - 1) : run[j] = Raised \/ run[j] \in Retried

\* Every run with every body, a run that never gets to a 200 having no body
\* to send.
Servings ==
  {Served(run, body) : run \in {r \in AttemptRuns : RunAnswers(r)}, body \in Bodies}
    \cup {Served(run, Unserved.body) : run \in {r \in AttemptRuns : ~RunAnswers(r)}}

\* The fallback endpoint is asked only when the primary gave nothing.
FallbackServings(primary) ==
  IF RunAnswers(primary.run) THEN {Unserved} ELSE Servings

NotServing ==
  [getter |-> "none", primary |-> Unserved, fallback |-> Unserved, fear_greed |-> Unserved]

NoProbe == [data |-> NoData, requests |-> NoRequests]

NoSummary == [kind |-> "none", service |-> "unasked"]

NoDigest == [produced |-> FALSE, delivered |-> {}]

\* No report cycle is running, and none has run.
ReportIdle ==
  /\ collector = NewCollector
  /\ market_data = NoSnapshot
  /\ rpc = "idle"
  /\ last_good = NoSnapshot
  /\ fetch_failed = [nasdaq |-> FALSE, fear_greed |-> FALSE]
  /\ serving = NotServing
  /\ probe = NoProbe
  /\ summary = NoSummary
  /\ digest = NoDigest

NoSelection ==
  [op |-> "none", REPORT_PAGE_SIZE |-> 0, posts |-> <<>>, first |-> None, retry |-> None,
   requests |-> <<>>, returned |-> <<>>, done |-> FALSE]

NoClassified == [op |-> "none"]

NoDelivery == [op |-> "none"]

\* Neither the report's selection nor the classifier is being called directly.
DirectIdle ==
  /\ selection = NoSelection
  /\ classified = NoClassified
  /\ delivery = NoDelivery

\* ------------------------------------------- the seen-set, called directly
\* A cache manager that has seen any set of identifiers; the caller holds any
\* batch and calls get_new_news on it, again and again.
FilterInit ==
  /\ \E S \in SUBSET Ids :
       /\ news_cache = SeenCache(S)
       /\ news_cache_file = IF S = {} THEN NoFile(EmptyNewsCache) ELSE FileOf(SeenCache(S))
  /\ last_response = EmptyLastResponse
  /\ last_response_file = NoFile(EmptyLastResponse)
  /\ now = 0
  /\ batch \in DirectBatches
  /\ call = NoCalls
  /\ sent_summaries = {}
  /\ PollIdle
  /\ ReportIdle
  /\ DirectIdle

CallGetNewNews ==
  /\ \E io_ok \in BOOLEAN : GetNewNews(batch, io_ok)
  /\ UNCHANGED <<directVars, sent_summaries, now, batch, pollVars, reportVars>>

CallClearCache ==
  /\ \E fails \in RemovalFailures : ClearCache(fails)
  /\ UNCHANGED <<directVars, sent_summaries, now, batch, pollVars, reportVars>>

FilterNext == CallGetNewNews \/ CallClearCache \/ Tick

SpecFilter == FilterInit /\ [][FilterNext]_vars

\* ---------------------------------------- the fingerprint, called directly
Reorderings(s) ==
  {[i \in 1..Len(s) |-> s[p[i]]] :
     p \in {q \in [1..Len(s) -> 1..Len(s)] :
              \A i, j \in 1..Len(s) : i # j => q[i] # q[j]}}

\* A cache manager that stored the fingerprint of any batch, or none yet; the
\* caller holds any batch, and the sources may send its items in another order.
ChangeInit ==
  /\ news_cache = EmptyNewsCache
  /\ news_cache_file = NoFile(EmptyNewsCache)
  /\ \/ /\ last_response = EmptyLastResponse
        /\ last_response_file = NoFile(EmptyLastResponse)
     \/ \E posts \in DirectBatches :
          /\ last_response = StoredResponse(posts)
          /\ last_response_file = FileOf(StoredResponse(posts))
  /\ now = 0
  /\ batch \in DirectBatches
  /\ call = NoCalls
  /\ sent_summaries = {}
  /\ PollIdle
  /\ ReportIdle
  /\ DirectIdle

CallHasResponseChanged ==
  /\ \E io_ok \in BOOLEAN : HasResponseChanged(batch, io_ok)
  /\ UNCHANGED <<directVars, sent_summaries, now, batch, pollVars, reportVars>>

Reorder ==
  /\ \E posts \in Reorderings(batch) : posts # batch /\ batch' = posts
  /\ UNCHANGED <<directVars, cacheVars, sent_summaries, now, call, pollVars, reportVars>>

ChangeNext == CallHasResponseChanged \/ Reorder \/ CallClearCache \/ Tick

SpecChange == ChangeInit /\ [][ChangeNext]_vars

\* ------------------------------------------------- claims on get_new_news
\* The items of s at the positions K, in the order of s.
RECURSIVE Pick(_, _)
Pick(s, K) ==
  IF s = <<>> THEN <<>>
  ELSE LET rest == Pick(SubSeq(s, 1, Len(s) - 1), K)
       IN IF Len(s) \in K THEN Append(rest, s[Len(s)]) ELSE rest

\* The positions of posts that hold an identifier, one not in seen and not at
\* an earlier position.
FirstUnseen(posts, seen) ==
  {i \in 1..Len(posts) :
     /\ posts[i].id # NoId
     /\ posts[i].id \notin seen
     /\ \A j \in 1..(i - 1) : posts[j].id # posts[i].id}

\* C1: get_new_news called again on the same batch, with no clear_cache in
\* between, returns the empty list; and a call on a batch that holds an
\* identifier not in the seen-set returns a non-empty list.
C1_FilterTwiceConverges ==
  [][CallGetNewNews =>
       /\ call.op = "get_new_news" => call'.ret = <<>>
       /\ IdsOf(batch) \ news_cache.news_ids # {} => call'.ret # <<>>]_vars

C1_Witness ==
  /\ call.op = "get_new_news"
  /\ call.ret = <<>>
  /\ call.prev.op = "get_new_news"
  /\ call.prev.ret # <<>>

\* C2: get_new_news returns the items of the batch whose identifier was not
\* in the seen-set and did not occur earlier in the batch, in batch order, and
\* the seen-set grows by exactly the identifiers of the returned items.
C2_FilterReturnsFirstUnseenInOrder ==
  [][CallGetNewNews =>
       /\ call'.ret = Pick(batch, FirstUnseen(batch, news_cache.news_ids))
       /\ news_cache'.news_ids = news_cache.news_ids \cup IdsOf(call'.ret)]_vars

\* A batch of two different items under one identifier, the first returned; and
\* a batch of two identifiers, both returned.
C2_Witness ==
  /\ call.op = "get_new_news"
  /\ Len(batch) = MaxLen
  /\ Len(call.ret) >= 1
  /\ call.ret[1] = batch[1]
  /\ batch[2].id = batch[1].id
  /\ batch[2] # batch[1]
  /\ Len(call.ret) < Len(batch)

C4_ChangedIffFingerprintDiffers ==
  [][CallHasResponseChanged =>
       /\ call'.changed <=>
            GenerateResponseHash(batch) # last_response.response_hash
       /\ call'.changed =>
            last_response' = [timestamp |-> now,
                              response_hash |-> GenerateResponseHash(batch),
                              news_count |-> Len(batch)]
       /\ ~call'.changed => last_response' = last_response]_vars

\* A changed batch stored over an older record, after an unchanged one.
C4_Witness ==
  /\ call.op = "has_response_changed"
  /\ call.changed
  /\ call.prev.op = "has_response_changed"
  /\ ~call.prev.changed
  /\ last_response.timestamp = MaxClock
  /\ last_response.news_count = Len(batch)

\* ------------------------------------ NewsHandler.process_and_send_news
Channels == {"c1", "c2"}

\* _is_summary_style_post: the title holds the word (each of the four
\* patterns holds it too).
IsSummaryStylePost(news) ==
  \E i \in 1..(Len(news.title) - 1) : news.title[i] = "yo" /\ news.title[i + 1] = "yak"

IsSummaryCandidate(post) == post.src = "community" /\ IsSummaryStylePost(post)

IsOfficial(news) == news.src = "news"

HasSentSummary(post_id) == post_id \in sent_summaries

MarkSentSummary(post_id) == sent_summaries' = sent_summaries \cup {post_id}

\* A pointer message goes out for every digest-style post met.
SummaryAlwaysDue(post) == TRUE

\* A pointer message goes out only for a post get_new_news has not seen.
SummaryDueIfUnseen(post) ==
  /\ ~(post.id # NoId /\ HasSentSummary(post.id))
  /\ post.id \notin news_cache.news_ids

\* A send attempted by the running cycle: a pointer message or an item card.
Attempt(kind, id, channel) == <<kind, id, channel>>

\* The test that opens both summary loops.
SummaryDue(post) == ~(post.id # NoId /\ HasSentSummary(post.id))

AnswersOver(items, n) ==
  {Answer("ok", posts) : posts \in SeqsUpTo(items, n)}
    \cup {Answer(kind, <<>>) : kind \in FailureKinds}

\* data = await api_client.fetch_news(): the dict fetch_news returns is never
\* empty, so the cycle goes on to the pre-send pass whatever its 'posts' are.
Fetch(community_answers, news_answers) ==
  /\ pc = "idle"
  /\ \E community_answer \in community_answers, news_answer \in news_answers :
       /\ responses' = [community |-> community_answer, news |-> news_answer]
       /\ batch' = FetchNews(community_answer, news_answer)
       /\ todo' = SelectSeq(batch', IsSummaryCandidate)
  /\ pc' = "presend"
  /\ UNCHANGED <<directVars, cacheVars, sent_summaries, now, call, summary_log, resent,
                 official_log, attempts, reportVars>>

\* One turn of a summary loop: the post is skipped if marked, else sent to
\* each channel (a send may fail) and marked.
SendSummary ==
  LET post == Head(todo)
  IN /\ todo # <<>>
     /\ IF SummaryDue(post)
        THEN /\ \E delivered \in SUBSET Channels :
                  /\ summary_log' = summary_log \cup {<<post.id, ch>> : ch \in delivered}
                  /\ resent' = (resent \/ \E ch \in delivered : <<post.id, ch>> \in summary_log)
             /\ attempts' = attempts \cup {Attempt("summary", post.id, ch) : ch \in Channels}
             /\ MarkSentSummary(post.id)
        ELSE UNCHANGED <<summary_log, resent, sent_summaries, attempts>>
     /\ todo' = Tail(todo)

PreSendPass ==
  /\ pc = "presend"
  /\ SendSummary
  /\ UNCHANGED <<directVars, cacheVars, now, batch, call, responses, pc, official_log, reportVars>>

\* if not has_response_changed(data): return
Gate ==
  /\ pc = "presend"
  /\ todo = <<>>
  /\ \E io_ok \in BOOLEAN : HasResponseChanged(batch, io_ok)
  /\ pc' = IF call'.changed THEN "filter" ELSE "return"
  /\ UNCHANGED <<directVars, sent_summaries, now, batch, responses, todo, summary_log, resent,
                 official_log, attempts, reportVars>>

\* new_news = get_new_news(data)
Filter ==
  /\ pc = "filter"
  /\ \E io_ok \in BOOLEAN : GetNewNews(batch, io_ok)
  /\ pc' = "official"
  /\ UNCHANGED <<directVars, sent_summaries, now, batch, responses, todo, summary_log, resent,
                 official_log, attempts, reportVars>>

\* The new official items go to _send_news_to_channel; the new digest-style
\* community posts are left for the second summary loop.
SendOfficial ==
  /\ pc = "official"
  /\ official_log' = official_log \cup IdsOf(SelectSeq(call.ret, IsOfficial))
  /\ attempts' = attempts \cup {Attempt("official", id, ch) :
                                 id \in IdsOf(SelectSeq(call.ret, IsOfficial)), ch \in Channels}
  /\ todo' = SelectSeq(call.ret, IsSummaryCandidate)
  /\ pc' = "summaries"
  /\ UNCHANGED <<directVars, cacheVars, sent_summaries, now, batch, call, responses, summary_log,
                 resent, reportVars>>

SummaryPass ==
  /\ pc = "summaries"
  /\ SendSummary
  /\ UNCHANGED <<directVars, cacheVars, now, batch, call, responses, pc, official_log, reportVars>>

\* process_and_send_news returns: its locals are gone.
EndCycle ==
  /\ pc = "return" \/ (pc = "summaries" /\ todo = <<>>)
  /\ pc' = "idle"
  /\ batch' = <<>>
  /\ responses' = [community |-> NoAnswer, news |-> NoAnswer]
  /\ call' = NoCalls
  /\ attempts' = {}
  /\ UNCHANGED <<directVars, cacheVars, sent_summaries, now, todo, summary_log, resent,
                 official_log, reportVars>>

\* A bot just started on an empty cache directory.
FreshInit ==
  /\ news_cache = EmptyNewsCache
  /\ last_response = EmptyLastResponse
  /\ news_cache_file = NoFile(EmptyNewsCache)
  /\ last_response_file = NoFile(EmptyLastResponse)
  /\ sent_summaries = {}
  /\ now = 0
  /\ batch = <<>>
  /\ call = NoCalls
  /\ PollIdle
  /\ ReportIdle
  /\ DirectIdle

\* ------------------------------------------------------ the polling cycles
\* What the sources send the polling cycles: the digest-style post 1 and plain
\* posts.
PollItems == {Item(1, TitleDigest)} \cup {Item(i, TitlePlain) : i \in 1..MaxPollId}

PollAnswers == AnswersOver(PollItems, MaxPollPage)

PollFetch == Fetch(PollAnswers, PollAnswers)

\* check_news runs one cycle after another; the clock is left standing, the
\* cycles differing in what the sources answer and in which sends succeed.
Next ==
  \/ PollFetch
  \/ PreSendPass
  \/ Gate
  \/ Filter
  \/ SendOfficial
  \/ SummaryPass
  \/ EndCycle

Spec == FreshInit /\ [][Next]_vars

\* ------------------------------------------------ fetch_news, called alone
\* The posts of the pages merged alone: any identifier, or none.
MergeItems == {Item(i, TitlePlain) : i \in {NoId} \cup (1..MaxMergeId)}

MergeFetched ==
  Fetch(AnswersOver(MergeItems, MaxCommunityPage), AnswersOver(MergeItems, MaxNewsPage))

MergeNext == MergeFetched

SpecMerge == FreshInit /\ [][MergeNext]_vars

\* -------------------------------------------------------- the report cycles
\* generate_report up to the market data: no news, no report; else a new
\* collector is built.
StartReport ==
  /\ rpc = "idle"
  /\ \E has_news \in BOOLEAN : rpc' = IF has_news THEN "nasdaq" ELSE "idle"
  /\ collector' = NewCollector
  /\ market_data' = NoSnapshot
  /\ fetch_failed' = [nasdaq |-> FALSE, fear_greed |-> FALSE]
  /\ summary' = NoSummary
  /\ digest' = NoDigest
  /\ UNCHANGED <<directVars, cacheVars, sent_summaries, now, batch, call, pollVars, last_good,
                 serving, probe>>

CollectNasdaqFrom(servings) ==
  /\ rpc = "nasdaq"
  /\ \E primary \in servings :
       \E fallback \in IF RunAnswers(primary.run) THEN {Unserved} ELSE servings :
         LET got == GetNasdaqPrice(collector.nasdaq_cache, primary.run, primary.body,
                                   fallback.run, fallback.body)
         IN /\ market_data' = [market_data EXCEPT !.nasdaq = got.ret]
            /\ collector' = [collector EXCEPT !.nasdaq_cache = got.cache]
            /\ fetch_failed' = [fetch_failed EXCEPT !.nasdaq = got.failed]
  /\ rpc' = "fear_greed"
  /\ UNCHANGED <<directVars, cacheVars, sent_summaries, now, batch, call, pollVars, last_good,
                 serving, probe, summary, digest>>

CollectFearGreedFrom(servings) ==
  /\ rpc = "fear_greed"
  /\ \E only \in servings :
       LET got == GetFearGreedIndex(collector.fear_greed_cache, only.run, only.body)
       IN /\ market_data' = [market_data EXCEPT !.fear_greed = got.ret]
          /\ collector' = [collector EXCEPT !.fear_greed_cache = got.cache]
          /\ fetch_failed' = [fetch_failed EXCEPT !.fear_greed = got.failed]
  /\ rpc' = "collected"
  /\ UNCHANGED <<directVars, cacheVars, sent_summaries, now, batch, call, pollVars, last_good,
                 serving, probe, summary, digest>>

CollectNasdaq == CollectNasdaqFrom(Servings)

CollectFearGreed == CollectFearGreedFrom(Servings)

\* summarize_news_with_market_data up to self.model.generate_content(prompt):
\* without a model the local summary is returned at once; with one, the call
\* is made, and it is a plain call, not an await: nothing else runs on the
\* event loop until it returns.
Summarize ==
  /\ rpc = "collected"
  /\ \E model_ready \in BOOLEAN :
       IF model_ready
       THEN rpc' = "summarizing" /\ summary' = summary
       ELSE rpc' = "summarized" /\ summary' = [kind |-> "fallback", service |-> "no_model"]
  /\ UNCHANGED <<directVars, cacheVars, sent_summaries, now, batch, call, pollVars, collector,
                 market_data, last_good, fetch_failed, serving, probe, digest>>

\* generate_content returns a text, returns nothing usable, or raises; the
\* last two make summarize_news_with_market_data return None.
SummaryAnswered ==
  /\ rpc = "summarizing"
  /\ \E service \in {"text", "empty", "raised"} :
       summary' = [kind |-> IF service = "text" THEN "ai" ELSE "none", service |-> service]
  /\ rpc' = "summarized"
  /\ UNCHANGED <<directVars, cacheVars, sent_summaries, now, batch, call, pollVars, collector,
                 market_data, last_good, fetch_failed, serving, probe, digest>>

\* The rest of generate_report: without a summary it returns; else the report
\* is built and sent to each channel (a send may fail).  The collector is left
\* behind; the cycle's fresh values are the ones a later cycle could be
\* expected to fall back on.
FinishReport ==
  /\ rpc = "summarized"
  /\ IF summary.kind = "none"
     THEN digest' = NoDigest
     ELSE \E delivered \in SUBSET Channels :
            digest' = [produced |-> TRUE, delivered |-> delivered]
  /\ rpc' = "idle"
  /\ last_good' =
       [ind \in Indicators |->
          IF market_data[ind].kind = "parsed" /\ ~market_data[ind].stale
          THEN market_data[ind] ELSE last_good[ind]]
  /\ UNCHANGED <<directVars, cacheVars, sent_summaries, now, batch, call, pollVars, collector,
                 market_data, fetch_failed, serving, probe, summary>>

ReportNext ==
  \/ StartReport
  \/ CollectNasdaq
  \/ CollectFearGreed
  \/ Summarize
  \/ SummaryAnswered
  \/ FinishReport

SpecReport == FreshInit /\ [][ReportNext]_vars

\* ------------------------------------------- claims on the polling cycle
BothFailed ==
  responses.community.kind \in FailureKinds /\ responses.news.kind \in FailureKinds

\* C5: in a polling cycle whose two fetches both failed, no step changes the
\* fingerprint record or the seen-set, so they end the cycle as they began it.
C5_BothFailSkipsCycle ==
  [][(pc # "idle" /\ BothFailed) =>
       (last_response' = last_response /\ news_cache' = news_cache)]_vars

\* --------------------------------------------------- claims on fetch_news
DistinctIds(posts) ==
  /\ \A i \in 1..Len(posts) : posts[i].id # NoId
  /\ \A i, j \in 1..Len(posts) : i # j => posts[i].id # posts[j].id

BothAnswered == responses.community.kind = "ok" /\ responses.news.kind = "ok"

\* C6: two pages with no identifier in common (and none twice in a page) merge
\* into the community page newest-first followed by the news page
\* newest-first, every item tagged with its source: [a1,a2,a3] and [b1,b2]
\* give [a3,a2,a1,b2,b1].
C6_MergeOrder ==
  (pc = "presend" /\ BothAnswered
     /\ DistinctIds(responses.community.posts \o responses.news.posts)) =>
    LET a == responses.community.posts
        b == responses.news.posts
    IN /\ Len(batch) = Len(a) + Len(b)
       /\ \A i \in 1..Len(a) :
            batch[i] = [a[Len(a) + 1 - i] EXCEPT !.src = "community"]
       /\ \A j \in 1..Len(b) :
            batch[Len(a) + j] = [b[Len(b) + 1 - j] EXCEPT !.src = "news"]

C6_Witness ==
  /\ pc = "presend"
  /\ BothAnswered
  /\ [i \in 1..Len(responses.community.posts) |-> responses.community.posts[i].id]
       = <<1, 2, 3>>
  /\ [i \in 1..Len(responses.news.posts) |-> responses.news.posts[i].id] = <<4, 5>>
  /\ [i \in 1..Len(batch) |-> batch[i].id] = <<3, 2, 1, 5, 4>>
  /\ [i \in 1..Len(batch) |-> batch[i].src]
       = <<"community", "community", "community", "news", "news">>

\* C7: the merged result never holds an identifier twice, and an identifier
\* that both sources sent is kept once, as the community item.
C7_MergeKeepsCommunityOccurrence ==
  pc = "presend" =>
    /\ \A i, j \in 1..Len(batch) : i # j => batch[i].id # batch[j].id
    /\ BothAnswered =>
         \A id \in IdsOf(responses.community.posts) \cap IdsOf(responses.news.posts) :
           /\ Cardinality({i \in 1..Len(batch) : batch[i].id = id}) = 1
           /\ \A i \in 1..Len(batch) : batch[i].id = id => batch[i].src = "community"

\* a2.id = b1.id: the community page [a1,a2,a3], the news page [b1,b2].
C7_Witness ==
  /\ pc = "presend"
  /\ BothAnswered
  /\ Len(responses.community.posts) = 3
  /\ Len(responses.news.posts) = 2
  /\ responses.community.posts[2].id = responses.news.posts[1].id
  /\ responses.news.posts[1].id # NoId
  /\ Len(batch) = 4
  /\ batch[2] = [responses.community.posts[2] EXCEPT !.src = "community"]

ExactlyOneFailed ==
  \/ responses.community.kind \in FailureKinds /\ responses.news.kind = "ok"
  \/ responses.community.kind = "ok" /\ responses.news.kind \in FailureKinds

\* C8: when exactly one source fails, fetch_news returns the other source's
\* page newest-first, tagged, each identifier once, and the cycle moves on to
\* its first pass over them.
C8_OneSourceFailing ==
  (pc # "idle" /\ ExactlyOneFailed) =>
    LET api == IF responses.community.kind = "ok" THEN "community" ELSE "news"
        page == responses[api].posts
        newest_first == [i \in 1..Len(page) |-> [page[Len(page) + 1 - i] EXCEPT !.src = api]]
    IN /\ batch = Pick(newest_first, FirstUnseen(newest_first, {}))
       /\ pc = "presend"

C8_Witness ==
  /\ pc = "presend"
  /\ responses.community.kind = "exception"
  /\ responses.news.kind = "ok"
  /\ Len(responses.news.posts) = 2
  /\ responses.news.posts[1].id = 1
  /\ responses.news.posts[2].id = 2
  /\ batch = <<[responses.news.posts[2] EXCEPT !.src = "news"],
               [responses.news.posts[1] EXCEPT !.src = "news"]>>

\* C9: no pointer message for a digest-style post goes to a channel that
\* already got one for that post, in either pass of any polling cycle.
C9_SummaryAtMostOnce == ~resent

\* The second pass of a cycle meets the post its first pass sent and marked.
C9_Witness ==
  /\ pc = "summaries"
  /\ todo # <<>>
  /\ HasSentSummary(Head(todo).id)
  /\ \A ch \in Channels : <<Head(todo).id, ch>> \in summary_log

\* ------------------------------------------- claims on the report cycles
\* C10: an indicator whose requests all failed in this cycle, and which an
\* earlier cycle had parsed, is in this cycle's market_data with the earlier
\* value and stale = TRUE.
C10_StaleFallbackAcrossCycles ==
  rpc = "collected" =>
    \A ind \in Indicators :
      (fetch_failed[ind] /\ last_good[ind] # NoParsed) =>
        market_data[ind] = [last_good[ind] EXCEPT !.stale = TRUE]

\* ------------------------------------- both tasks on the one event loop
\* check_news and generate_report are tasks of the same event loop: a step of
\* one runs from an await to the next, and the other can step at every await.
\* Between the call of generate_content and its return there is none.
LoopAnswers == {Answer("ok", <<Item(1, TitleDigest)>>), Answer("http_error", <<>>)}

QuickServings ==
  {Served([attempt \in 1..MaxRetries |-> 200], [kind |-> "quote", value |-> 1]), Unserved}

LoopFree == rpc # "summarizing"

LoopFetch == LoopFree /\ Fetch(LoopAnswers, LoopAnswers)

LoopPoll ==
  /\ LoopFree
  /\ \/ PreSendPass
     \/ Gate
     \/ Filter
     \/ SendOfficial
     \/ SummaryPass
     \/ EndCycle

LoopReport ==
  \/ StartReport
  \/ CollectNasdaqFrom(QuickServings)
  \/ CollectFearGreedFrom(QuickServings)
  \/ Summarize
  \/ SummaryAnswered
  \/ FinishReport

LoopNext == LoopFetch \/ LoopPoll \/ LoopReport

SpecLoop == FreshInit /\ [][LoopNext]_vars

\* ------------------------------------------- claims on the report cycle
\* C14: while generate_report waits for the generative service, a check_news
\* cycle can start.
C14_PollingNotBlockedBySummary ==
  (rpc = "summarizing" /\ pc = "idle") => ENABLED LoopFetch

\* C15: a report cycle whose summarization service raised or answered nothing
\* ends with the local fallback summary and a report sent.
C15_FallbackOnServiceFailure ==
  (rpc = "idle" /\ summary.service \in {"empty", "raised"}) =>
    (summary.kind = "fallback" /\ digest.produced)

\* ------------------------------------------- the getters, called directly
CacheOf(ind) == IF ind = "nasdaq" THEN collector.nasdaq_cache ELSE collector.fear_greed_cache

\* What a cache holds after earlier calls on the collector: nothing, or the
\* value last parsed.
CachedValues == {NoParsed} \cup {Parsed(body) : body \in {b \in Bodies : b.kind = "quote"}}

\* A collector whose getter is about to be called, with anything or nothing
\* cached for its indicator, and endpoints that answer anything.
CollectorInit ==
  /\ news_cache = EmptyNewsCache
  /\ last_response = EmptyLastResponse
  /\ news_cache_file = NoFile(EmptyNewsCache)
  /\ last_response_file = NoFile(EmptyLastResponse)
  /\ sent_summaries = {}
  /\ now = 0
  /\ batch = <<>>
  /\ call = NoCalls
  /\ PollIdle
  /\ DirectIdle
  /\ market_data = NoSnapshot
  /\ rpc = "direct"
  /\ last_good = NoSnapshot
  /\ fetch_failed = [nasdaq |-> FALSE, fear_greed |-> FALSE]
  /\ probe = NoProbe
  /\ summary = NoSummary
  /\ digest = NoDigest
  /\ \/ /\ collector \in [nasdaq_cache : CachedValues, fear_greed_cache : {NoParsed}]
        /\ \E primary \in Servings : \E fallback \in FallbackServings(primary) :
             serving = [getter |-> "nasdaq", primary |-> primary,
                        fallback |-> fallback, fear_greed |-> Unserved]
     \/ /\ collector \in [nasdaq_cache : {NoParsed}, fear_greed_cache : CachedValues]
        /\ serving \in [getter : {"fear_greed"}, primary : {Unserved},
                        fallback : {Unserved}, fear_greed : Servings]

CallGetNasdaqPrice ==
  /\ rpc = "direct"
  /\ serving.getter = "nasdaq"
  /\ LET got == GetNasdaqPrice(collector.nasdaq_cache,
                               serving.primary.run, serving.primary.body,
                               serving.fallback.run, serving.fallback.body)
     IN /\ market_data' = [market_data EXCEPT !.nasdaq = got.ret]
        /\ collector' = [collector EXCEPT !.nasdaq_cache = got.cache]
        /\ fetch_failed' = [fetch_failed EXCEPT !.nasdaq = got.failed]
        /\ probe' = [data |-> got.data, requests |-> got.requests]
  /\ rpc' = "returned"
  /\ UNCHANGED <<directVars, cacheVars, sent_summaries, now, batch, call, pollVars, last_good, serving,
                 summary, digest>>

CallGetFearGreedIndex ==
  /\ rpc = "direct"
  /\ serving.getter = "fear_greed"
  /\ LET got == GetFearGreedIndex(collector.fear_greed_cache,
                                  serving.fear_greed.run, serving.fear_greed.body)
     IN /\ market_data' = [market_data EXCEPT !.fear_greed = got.ret]
        /\ collector' = [collector EXCEPT !.fear_greed_cache = got.cache]
        /\ fetch_failed' = [fetch_failed EXCEPT !.fear_greed = got.failed]
        /\ probe' = [data |-> got.data, requests |-> got.requests]
  /\ rpc' = "returned"
  /\ UNCHANGED <<directVars, cacheVars, sent_summaries, now, batch, call, pollVars, last_good, serving,
                 summary, digest>>

CollectorNext == CallGetNasdaqPrice \/ CallGetFearGreedIndex

SpecCollector == CollectorInit /\ [][CollectorNext]_vars

\* ------------------------------------------------- claims on the getters
\* What an attempt can meet and be tried again: 429, a 5xx, an exception.
Transient == {429, 500, 502, 503, 504, Raised}

\* Every attempt of the run ends without a body: a transient failure each
\* time, or another status than 200 met first.
RunFails(run) ==
  \A i \in 1..MaxRetries :
    run[i] = 200 => \E j \in 1..(i - 1) : run[j] \notin Transient

AllEndpointsFail ==
  IF serving.getter = "nasdaq"
  THEN RunFails(serving.primary.run) /\ RunFails(serving.fallback.run)
  ELSE RunFails(serving.fear_greed.run)

Endpoints == {"primary", "fallback", "fear_greed"}

\* The attempt that ended the requests to an endpoint met a status that is
\* neither 200 nor transient.
Aborted(endpoint) ==
  /\ probe.requests[endpoint] >= 1
  /\ serving[endpoint].run[probe.requests[endpoint]] \notin Transient \cup {200}

MaxPageLen == 2
\* The largest REPORT_PAGE_SIZE a selection pass is configured with.
MaxReportPageSize == 2
\* The largest REPORT_PAGE_SIZE a report fetch is configured with.
MaxConfiguredPageSize == 60

\* created_at is kept as the age of the post in minutes when the pass runs;
\* two values stand for a post without created_at and for one that
\* datetime.fromisoformat rejects.
Missing == -1
Unparsable == -2
CutoffMinutes == 120
BonusMinutes == 30
Ages == {10, 121}

\* A title is a sequence of words, punctuation marks and blanks.
Blank == " "
Punctuation == {"!"}
ReportTitles == {<<Blank>>, <<"FED", "!">>, <<"fed">>, <<"rate">>}

\* A body is a sequence of chunks of 100 characters.
PrefixChunks == 1
ReportContents == {<<>>, <<"a", "x">>, <<"a", "y">>}

ReportPost(created_at, title, content) ==
  [id |-> 0, created_at |-> created_at, title |-> title, content |-> content,
   like_count |-> 0, view_count |-> 0, comment_count |-> 0, importance_score |-> None]

ReportPosts ==
  {ReportPost(created_at, title, content) :
     created_at \in {Missing, Unparsable} \cup Ages,
     title \in ReportTitles, content \in ReportContents}

\* The i-th post of a page carries the identifier i.
Numbered(posts) == [i \in DOMAIN posts |-> [posts[i] EXCEPT !.id = i]]

Pages == {Numbered(posts) : posts \in SeqsUpTo(ReportPosts, MaxPageLen)}

Lower(word) == IF word = "FED" THEN "fed" ELSE word

LowerCased(title) == [i \in DOMAIN title |-> Lower(title[i])]

RECURSIVE LeftStripped(_)
LeftStripped(title) ==
  IF title # <<>> /\ Head(title) = Blank THEN LeftStripped(Tail(title)) ELSE title

RECURSIVE RightStripped(_)
RightStripped(title) ==
  IF title # <<>> /\ title[Len(title)] = Blank
    THEN RightStripped(SubSeq(title, 1, Len(title) - 1))
    ELSE title

\* str.strip()
Stripped(title) == RightStripped(LeftStripped(title))

\* re.sub(r'[^\w\s]', '', ...)
WithoutPunctuation(title) == SelectSeq(title, LAMBDA mark : mark \notin Punctuation)

\* re.sub(r'\s+', ' ', ...)
RECURSIVE Collapsed(_)
Collapsed(title) ==
  IF Len(title) < 2 THEN title
  ELSE IF title[1] = Blank /\ title[2] = Blank THEN Collapsed(Tail(title))
  ELSE <<title[1]>> \o Collapsed(Tail(title))

NormalizedTitle(title) ==
  Stripped(Collapsed(WithoutPunctuation(LowerCased(Stripped(title)))))

\* hash(content[:100]) if content else 0; the value 0 is the empty sequence.
ContentHash(content) ==
  IF content = <<>> THEN <<>> ELSE SubSeq(content, 1, PrefixChunks)

\* Two of the important_keywords.
ImportantKeywords == {"fed", "ai"}

\* keyword in word: the word is the keyword, or holds it as a substring.
Contains(word, keyword) == word = keyword \/ (word = "said" /\ keyword = "ai")

KeywordHits(title) ==
  Cardinality({keyword \in ImportantKeywords :
                 \E i \in DOMAIN title : Contains(Lower(title[i]), keyword)})

Parsable(created_at) == created_at \notin {Missing, Unparsable}

\* _calculate_importance_score with the view count's share not capped.
CalculateImportanceScoreUncapped(post) ==
  3 * post.like_count
    + post.view_count \div 10
    + 2 * post.comment_count
    + 10 * KeywordHits(post.title)
    + (IF Parsable(post.created_at) /\ post.created_at < BonusMinutes THEN 20 ELSE 0)

CalculateImportanceScore(post) ==
  LET tenth == post.view_count \div 10
  IN  3 * post.like_count
      + (IF tenth < 50 THEN tenth ELSE 50)
      + 2 * post.comment_count
      + 10 * KeywordHits(post.title)
      + (IF Parsable(post.created_at) /\ post.created_at < BonusMinutes THEN 20 ELSE 0)

\* The loop over posts: what it has appended when it ends or breaks.
RECURSIVE FilteredFrom(_, _, _, _, _, _)
FilteredFrom(i, posts, page_size, filtered_posts, seen_titles, seen_content_hashes) ==
  IF i > Len(posts) THEN filtered_posts
  ELSE
    LET post == posts[i]
        normalized_title == NormalizedTitle(post.title)
        content_hash == ContentHash(post.content)
        skipped == FilteredFrom(i + 1, posts, page_size, filtered_posts,
                                seen_titles, seen_content_hashes)
        appended ==
          Append(filtered_posts,
                 [post EXCEPT !.importance_score = CalculateImportanceScore(post)])
    IN  IF post.created_at = Unparsable THEN skipped
        ELSE IF post.created_at # Missing /\ post.created_at > CutoffMinutes THEN skipped
        ELSE IF Stripped(post.title) = <<>> THEN skipped
        ELSE IF normalized_title \in seen_titles THEN skipped
        ELSE IF content_hash \in seen_content_hashes THEN skipped
        ELSE IF Len(appended) >= page_size THEN appended
        ELSE FilteredFrom(i + 1, posts, page_size, appended,
                          seen_titles \cup {normalized_title},
                          seen_content_hashes \cup {content_hash})

RECURSIVE InsertedByScore(_, _)
InsertedByScore(post, sorted) ==
  IF sorted = <<>> THEN <<post>>
  ELSE IF Head(sorted).importance_score >= post.importance_score
    THEN <<Head(sorted)>> \o InsertedByScore(post, Tail(sorted))
    ELSE <<post>> \o sorted

RECURSIVE SortedFrom(_, _, _)
SortedFrom(i, posts, sorted) ==
  IF i > Len(posts) THEN sorted
  ELSE SortedFrom(i + 1, posts, InsertedByScore(posts[i], sorted))

\* The posts in the order they were appended.
LeftAsAppended(posts) == posts

\* list.sort(key=score, reverse=True): stable, highest score first.
SortedByScore(posts) == SortedFrom(1, posts, <<>>)

FirstN(posts, n) == SubSeq(posts, 1, IF Len(posts) < n THEN Len(posts) ELSE n)

FilterAndPrioritizeNews(posts, page_size) ==
  FirstN(SortedByScore(FilteredFrom(1, posts, page_size, <<>>, {}, {})), page_size)

\* _fetch_community_news_for_report
PageSizeCeiling == 100
RetryPageSize == 50
ReportStatuses == {200, 422, 500, Raised}

FetchCommunityNewsForReport(page_size, first, retry, posts) ==
  LET doubled == page_size * 2
      max_page_size == IF doubled < PageSizeCeiling THEN doubled ELSE PageSizeCeiling
  IN  IF first = 200
        THEN [returned |-> FilterAndPrioritizeNews(posts, page_size),
              requests |-> <<max_page_size>>]
      ELSE IF first = 422
        THEN [returned |-> IF retry = 200
                             THEN FilterAndPrioritizeNews(posts, page_size)
                             ELSE <<>>,
              requests |-> <<max_page_size, RetryPageSize>>]
      ELSE [returned |-> <<>>, requests |-> <<max_page_size>>]

\* A selection pass about to run on any page, under any small REPORT_PAGE_SIZE.
SelectorInit ==
  /\ news_cache = EmptyNewsCache
  /\ last_response = EmptyLastResponse
  /\ news_cache_file = NoFile(EmptyNewsCache)
  /\ last_response_file = NoFile(EmptyLastResponse)
  /\ sent_summaries = {}
  /\ now = 0
  /\ batch = <<>>
  /\ call = NoCalls
  /\ PollIdle
  /\ ReportIdle
  /\ classified = NoClassified
  /\ delivery = NoDelivery
  /\ \E page_size \in 1..MaxReportPageSize, posts \in Pages :
       selection = [NoSelection EXCEPT !.op = "filter",
                                       !.REPORT_PAGE_SIZE = page_size,
                                       !.posts = posts]

CallFilterAndPrioritizeNews ==
  /\ selection.op = "filter"
  /\ ~selection.done
  /\ selection' =
       [selection EXCEPT
          !.returned = FilterAndPrioritizeNews(selection.posts, selection.REPORT_PAGE_SIZE),
          !.done = TRUE]
  /\ UNCHANGED <<cacheVars, sent_summaries, now, batch, call, pollVars, reportVars,
                 classified, delivery>>

SelectorNext == CallFilterAndPrioritizeNews

SpecSelector == SelectorInit /\ [][SelectorNext]_vars

\* The pages a report fetch is answered with.
FetchedPages ==
  {Numbered(posts) :
     posts \in SeqsUpTo({ReportPost(10, <<"rate">>, <<"a", "x">>)}, 1)}

\* A report fetch about to run under any REPORT_PAGE_SIZE; the retry is
\* answered only when the first request got 422.
ReportFetchInit ==
  /\ news_cache = EmptyNewsCache
  /\ last_response = EmptyLastResponse
  /\ news_cache_file = NoFile(EmptyNewsCache)
  /\ last_response_file = NoFile(EmptyLastResponse)
  /\ sent_summaries = {}
  /\ now = 0
  /\ batch = <<>>
  /\ call = NoCalls
  /\ PollIdle
  /\ ReportIdle
  /\ classified = NoClassified
  /\ delivery = NoDelivery
  /\ \E page_size \in 1..MaxConfiguredPageSize, first \in ReportStatuses :
       \E retry \in (IF first = 422 THEN ReportStatuses ELSE {None}) :
         \E posts \in (IF 200 \in {first, retry} THEN FetchedPages ELSE {<<>>}) :
           selection = [NoSelection EXCEPT !.op = "fetch",
                                           !.REPORT_PAGE_SIZE = page_size,
                                           !.first = first,
                                           !.retry = retry,
                                           !.posts = posts]

CallFetchCommunityNewsForReport ==
  /\ selection.op = "fetch"
  /\ ~selection.done
  /\ LET fetched == FetchCommunityNewsForReport(selection.REPORT_PAGE_SIZE, selection.first,
                                                selection.retry, selection.posts)
     IN  selection' = [selection EXCEPT !.returned = fetched.returned,
                                        !.requests = fetched.requests,
                                        !.done = TRUE]
  /\ UNCHANGED <<cacheVars, sent_summaries, now, batch, call, pollVars, reportVars,
                 classified, delivery>>

ReportFetchNext == CallFetchCommunityNewsForReport

SpecReportFetch == ReportFetchInit /\ [][ReportFetchNext]_vars

\* ------------------------------------------- claims on the report selection
Selected == selection.op = "filter" /\ selection.done

\* The i-th post of the page is in the returned list.
Returned(i) == \E k \in DOMAIN selection.returned : selection.returned[k].id = i

\* The loop reached the i-th post: it had not yet appended REPORT_PAGE_SIZE posts.
Scanned(i) ==
  Cardinality({j \in 1..(i - 1) : Returned(j)}) < selection.REPORT_PAGE_SIZE

TooOld(post) == Parsable(post.created_at) /\ post.created_at > CutoffMinutes

HasTitle(post) == Stripped(post.title) # <<>>

SameTitle(first, second) == NormalizedTitle(first.title) = NormalizedTitle(second.title)

SameBody(first, second) == ContentHash(first.content) = ContentHash(second.content)

\* An earlier post that was kept has the same normalized title, or the same
\* fingerprint of the body's first 100 characters.
DuplicatesSurvivor(i) ==
  \E j \in 1..(i - 1) :
    /\ Returned(j)
    /\ SameTitle(selection.posts[j], selection.posts[i])
       \/ SameBody(selection.posts[j], selection.posts[i])

\* C16: a selection pass drops every post created more than 2 hours ago, and
\* keeps every post it reaches that has a title, duplicates no earlier
\* survivor and has a missing or unparsable creation timestamp.
C16_TimeWindowFailsOpen ==
  Selected =>
    \A i \in DOMAIN selection.posts :
      LET post == selection.posts[i]
      IN  /\ TooOld(post) => ~Returned(i)
          /\ (/\ ~Parsable(post.created_at)
              /\ Scanned(i)
              /\ HasTitle(post)
              /\ ~DuplicatesSurvivor(i)) => Returned(i)

\* C17: the returned list has at most REPORT_PAGE_SIZE posts, and no post of
\* it has a lower importance score than the post after it.
C17_CappedAndOrderedByScore ==
  Selected =>
    /\ Len(selection.returned) <= selection.REPORT_PAGE_SIZE
    /\ \A k \in 1..(Len(selection.returned) - 1) :
         CalculateImportanceScore(selection.returned[k])
           >= CalculateImportanceScore(selection.returned[k + 1])

\* A page of two fresh posts, the second with a keyword in its title: the
\* list is full at REPORT_PAGE_SIZE and the second post comes first.
C17_Witness ==
  /\ Selected
  /\ selection.REPORT_PAGE_SIZE = 2
  /\ Len(selection.returned) = 2
  /\ selection.returned[1].id = 2
  /\ selection.returned[2].id = 1
  /\ selection.returned[1].importance_score > selection.returned[2].importance_score

\* C18: a post the pass reaches is dropped exactly when it is older than the
\* window or duplicates an earlier survivor by normalized title or by body
\* fingerprint; no two survivors share a normalized title or a fingerprint.
C18_DroppedIffOldOrDuplicate ==
  Selected =>
    /\ \A i \in DOMAIN selection.posts :
         Scanned(i) =>
           (~Returned(i) <=> (TooOld(selection.posts[i]) \/ DuplicatesSurvivor(i)))
    /\ \A i, j \in DOMAIN selection.posts :
         (i # j /\ Returned(i) /\ Returned(j)) =>
           /\ ~SameTitle(selection.posts[i], selection.posts[j])
           /\ ~SameBody(selection.posts[i], selection.posts[j])

\* C19: a 422 on the first request is followed by exactly one retry, with a
\* smaller page size than the first request; any other answer is followed by
\* no retry.
C19_RetryWithSmallerPage ==
  (selection.op = "fetch" /\ selection.done) =>
    /\ Len(selection.requests) <= 2
    /\ selection.first = 422 =>
         /\ Len(selection.requests) = 2
         /\ selection.requests[2] < selection.requests[1]
    /\ selection.first # 422 => Len(selection.requests) = 1

\* ------------------------------------------- NewsAPIClient, classifying
\* The largest like_count of a post handed to the classifier.
MaxLikeCount == 6

IMPORTANT_LIKE_THRESHOLD == 5
DefaultThreshold == 5
HighViewCount == 100

\* A text is a sequence of words and marks. One of the breaking_keywords,
\* and three of the breaking_patterns.
BreakingKeywords == {<<"sokbo">>}
BreakingPatterns == {<<"[", "sokbo", "]">>, <<"sokbo", ":">>, <<"siren">>}

\* needle in text, re.search(needle, text)
Within(needle, text) ==
  \E i \in 1..(Len(text) - Len(needle) + 1) :
    SubSeq(text, i, i + Len(needle) - 1) = needle

ClassifiedTitles == {<<"rate">>, <<"[", "sokbo", "]", "rate">>, <<"siren", "rate">>}
ClassifiedContents == {<<"body">>, <<"sokbo", ":", "body">>}
ClassifiedTags == {<<>>, <<(<<"sokbo">>)>>}
ViewCounts == {0, HighViewCount - 1, HighViewCount}

ClassifiedNews ==
  [title : ClassifiedTitles, content : ClassifiedContents,
   community_tags : ClassifiedTags, tag_names : ClassifiedTags,
   like_count : 0..MaxLikeCount, view_count : ViewCounts,
   source_api : {"community", "news"}]

HasBreakingMark(news) ==
  \/ \E keyword \in BreakingKeywords :
       \/ Within(keyword, news.title)
       \/ Within(keyword, news.content)
       \/ \E i \in DOMAIN news.community_tags : Within(keyword, news.community_tags[i])
       \/ \E i \in DOMAIN news.tag_names : Within(keyword, news.tag_names[i])
  \/ \E pattern \in BreakingPatterns :
       Within(pattern, news.title) \/ Within(pattern, news.content)

\* is_breaking_news applied to the posts of the News API alone.
IsBreakingNewsOfficialOnly(news) == news.source_api = "news" /\ HasBreakingMark(news)

IsBreakingNews(news) ==
  \/ \E keyword \in BreakingKeywords : Within(keyword, news.title)
  \/ \E keyword \in BreakingKeywords : Within(keyword, news.content)
  \/ \E i \in DOMAIN news.community_tags :
       \E keyword \in BreakingKeywords : Within(keyword, news.community_tags[i])
  \/ \E i \in DOMAIN news.tag_names :
       \E keyword \in BreakingKeywords : Within(keyword, news.tag_names[i])
  \/ \E pattern \in BreakingPatterns :
       Within(pattern, news.title) \/ Within(pattern, news.content)

IsImportantNews(news, threshold, from_news_api) ==
  IF IsBreakingNews(news) THEN TRUE
  ELSE IF ~from_news_api THEN FALSE
  ELSE news.like_count >= threshold \/ news.view_count >= HighViewCount

\* The labels are "sokbo" (breaking), "jungyo" (important), "ilban" (normal).
\* is_important_news is called with its default arguments.
GetNewsType(news) ==
  IF IsBreakingNews(news) THEN "sokbo"
  ELSE IF IsImportantNews(news, DefaultThreshold, FALSE) THEN "jungyo"
  ELSE "ilban"

\* Any post about to be classified for sending.
ClassifierInit ==
  /\ news_cache = EmptyNewsCache
  /\ last_response = EmptyLastResponse
  /\ news_cache_file = NoFile(EmptyNewsCache)
  /\ last_response_file = NoFile(EmptyLastResponse)
  /\ sent_summaries = {}
  /\ now = 0
  /\ batch = <<>>
  /\ call = NoCalls
  /\ PollIdle
  /\ ReportIdle
  /\ selection = NoSelection
  /\ delivery = NoDelivery
  /\ \E news \in ClassifiedNews : classified = [op |-> "classify", news |-> news]

\* news_type, is_breaking and is_important as the senders compute them.
Classify ==
  /\ classified.op = "classify"
  /\ LET news == classified.news
     IN  classified' =
           [op |-> "classified",
            news |-> news,
            news_type |-> GetNewsType(news),
            is_breaking |-> IsBreakingNews(news),
            is_important |-> IsImportantNews(news, IMPORTANT_LIKE_THRESHOLD,
                                             news.source_api = "news")]
  /\ UNCHANGED <<cacheVars, sent_summaries, now, batch, call, pollVars, reportVars,
                 selection, delivery>>

ClassifierNext == Classify

SpecClassifier == ClassifierInit /\ [][ClassifierNext]_vars

\* A post of the official source with enough likes or views.
Engaged(news) ==
  /\ news.source_api = "news"
  /\ news.like_count >= IMPORTANT_LIKE_THRESHOLD \/ news.view_count >= HighViewCount

\* C20: a post that is not breaking gets the flag is_important and the label
\* "jungyo" exactly when it comes from the official source with likes at the
\* threshold or views at 100, and the label "ilban" otherwise.
C20_ImportantByEngagement ==
  (classified.op = "classified" /\ ~classified.is_breaking) =>
    /\ classified.is_important <=> Engaged(classified.news)
    /\ classified.news_type = IF Engaged(classified.news) THEN "jungyo" ELSE "ilban"

\* The posts that differ from news in their counters or their origin alone.
SameText(news) ==
  {other \in ClassifiedNews :
     /\ other.title = news.title
     /\ other.content = news.content
     /\ other.community_tags = news.community_tags
     /\ other.tag_names = news.tag_names}

\* C21: a post with a breaking keyword or pattern in its title or body, or a
\* breaking keyword in one of its tags, is breaking and labelled "sokbo"; the
\* verdict is the same for every like count, view count and origin.
C21_BreakingWhateverEngagement ==
  classified.op = "classified" =>
    /\ HasBreakingMark(classified.news) =>
         /\ classified.is_breaking
         /\ classified.news_type = "sokbo"
         /\ classified.is_important
    /\ \A other \in SameText(classified.news) :
         IsBreakingNews(other) = classified.is_breaking

\* A community post without likes or views, breaking by a tag name alone.
C21_Witness ==
  /\ classified.op = "classified"
  /\ classified.news.source_api = "community"
  /\ classified.news.like_count = 0
  /\ classified.news.view_count = 0
  /\ classified.news.title = <<"rate">>
  /\ classified.news.content = <<"body">>
  /\ classified.news.community_tags = <<>>
  /\ classified.news.tag_names # <<>>
  /\ classified.is_breaking
  /\ classified.news_type = "sokbo"

\* ------------------------------------------- claims on the pointer messages
PostsOf(posts) == {posts[i] : i \in DOMAIN posts}

\* A pointer message for the post was attempted on every channel.
Dispatched(post) == \A ch \in Channels : Attempt("summary", post.id, ch) \in attempts

\* C22: the pre-send pass visits every digest-style community post of the
\* fetched batch before the fingerprint gate is asked, and on a post not yet
\* marked it attempts a pointer message on every channel and marks the post,
\* whatever the seen-set holds and whatever the gate answers afterwards.
C22_DigestSentBeforeGate ==
  [][/\ (pc = "idle" /\ pc' = "presend") =>
          \A post \in PostsOf(batch') :
            (post.src = "community" /\ IsSummaryStylePost(post)) => post \in PostsOf(todo')
     /\ (pc = "presend" /\ pc' = "presend") =>
          /\ todo # <<>>
          /\ todo' = Tail(todo)
          /\ ~HasSentSummary(Head(todo).id) =>
               /\ \A ch \in Channels :
                    Attempt("summary", Head(todo).id, ch) \in attempts'
               /\ Head(todo).id \in sent_summaries'
     /\ (pc = "presend" /\ pc' # "presend") => todo = <<>>]_vars

\* The gate has answered 'unchanged' for a batch with a digest-style community
\* post whose identifier get_new_news has seen, and the pointer message of this
\* cycle has been attempted.
C22_Witness ==
  /\ pc = "return"
  /\ ~call.changed
  /\ \E post \in PostsOf(batch) :
       /\ post.src = "community"
       /\ IsSummaryStylePost(post)
       /\ post.id \in news_cache.news_ids
       /\ Dispatched(post)

\* ------------------------------------------------- clear_cache, then a batch
\* A cache manager that has seen any identifiers and stored the fingerprint of
\* the batch the caller holds, or none; clear_cache and get_new_news are called.
ClearInit ==
  /\ \E S \in SUBSET Ids :
       /\ news_cache = SeenCache(S)
       /\ news_cache_file = IF S = {} THEN NoFile(EmptyNewsCache) ELSE FileOf(SeenCache(S))
  /\ batch \in DirectBatches
  /\ \/ /\ last_response = EmptyLastResponse
        /\ last_response_file = NoFile(EmptyLastResponse)
     \/ /\ last_response = StoredResponse(batch)
        /\ last_response_file = FileOf(StoredResponse(batch))
  /\ now = 0
  /\ call = NoCalls
  /\ sent_summaries = {}
  /\ PollIdle
  /\ ReportIdle
  /\ DirectIdle

ClearNext == CallClearCache \/ CallGetNewNews

SpecClear == ClearInit /\ [][ClearNext]_vars

\* The memory is empty and no cache file is left.
Cleared ==
  /\ news_cache = EmptyNewsCache
  /\ last_response = EmptyLastResponse
  /\ ~news_cache_file.exists
  /\ ~last_response_file.exists

CheckSentSummary ==
  /\ pc = "presend"
  /\ todo # <<>>
  /\ IF SummaryDue(Head(todo))
       THEN pc' = "sending" /\ todo' = todo
       ELSE pc' = "presend" /\ todo' = Tail(todo)
  /\ UNCHANGED <<directVars, cacheVars, sent_summaries, now, batch, call, responses,
                 summary_log, resent, official_log, attempts, reportVars>>

SendAndMark ==
  /\ pc = "sending"
  /\ SendSummary
  /\ pc' = "presend"
  /\ UNCHANGED <<directVars, cacheVars, now, batch, call, responses, official_log,
                 reportVars>>

\* The polling task stands at an await: between two cycles, in the sends of a
\* pointer message, or in the sends after get_new_news.
CommandFree == pc \in {"idle", "sending", "summaries"}

\* The clear_cache command, run by the event loop while the polling task waits.
CommandClearCache ==
  /\ CommandFree
  /\ \E fails \in RemovalFailures : ClearCache(fails)
  /\ UNCHANGED <<directVars, sent_summaries, now, batch, pollVars, reportVars>>

CommandsNext ==
  \/ PollFetch
  \/ CheckSentSummary
  \/ SendAndMark
  \/ Gate
  \/ Filter
  \/ SendOfficial
  \/ SummaryPass
  \/ EndCycle
  \/ CommandClearCache

SpecCommands == FreshInit /\ [][CommandsNext]_vars

\* has_sent_summary has been read for a post and mark_sent_summary is still
\* to be called for it.
BetweenCheckAndMark == pc = "sending"

\* C24: between the check of a summary mark and its insertion no command
\* handler can run on the cache.
C24_CacheSequencesExclusive == BetweenCheckAndMark => ~ENABLED CommandClearCache

\* ------------------------------------------------ deliveries, called directly
\* The longest news_list handed to a delivery.
MaxDeliveryLen == 2

\* target_channels, in the order the loops visit them.
TargetChannels == <<"c1", "c2">>

\* What happens to one item on one channel: sent (and pinned, if it is to be
\* pinned); channel.send raising on the first try and on the retry without a
\* thumbnail; message.pin raising discord.Forbidden; message.pin raising
\* another exception.
SendOutcomes == {"sent", "send_failed", "pin_forbidden", "pin_failed"}

\* One entry per call of channel.send that opens the handling of an item.
Sent(channel, id) == <<channel, id>>

\* _send_news_to_channel with the try around the whole loop: the first
\* exception that is not discord.Forbidden ends the delivery to the channel.
RECURSIVE SendNewsToChannelUntilFailure(_, _, _)
SendNewsToChannelUntilFailure(channel, news_list, outcome) ==
  IF news_list = <<>> THEN <<>>
  ELSE IF outcome[Sent(channel, Head(news_list))] \in {"send_failed", "pin_failed"}
    THEN <<Sent(channel, Head(news_list))>>
    ELSE <<Sent(channel, Head(news_list))>>
           \o SendNewsToChannelUntilFailure(channel, Tail(news_list), outcome)

\* _send_news_to_channel: every exception raised for an item is caught inside
\* the loop, and the loop goes on with the next item.
RECURSIVE SendNewsToChannel(_, _, _)
SendNewsToChannel(channel, news_list, outcome) ==
  IF news_list = <<>> THEN <<>>
  ELSE <<Sent(channel, Head(news_list))>>
         \o SendNewsToChannel(channel, Tail(news_list), outcome)

\* for channel in target_channels: await self._send_news_to_channel(...)
RECURSIVE SendToChannels(_, _, _)
SendToChannels(channels, news_list, outcome) ==
  IF channels = <<>> THEN <<>>
  ELSE SendNewsToChannel(Head(channels), news_list, outcome)
         \o SendToChannels(Tail(channels), news_list, outcome)

\* The report card, identifier NoId: a send that raises is caught per channel.
RECURSIVE SendReport(_, _)
SendReport(channels, outcome) ==
  IF channels = <<>> THEN <<>>
  ELSE <<Sent(Head(channels), NoId)>> \o SendReport(Tail(channels), outcome)

\* The news lists: items of different identifiers, in any order.
NewsLists ==
  {news_list \in SeqsUpTo(1..MaxDeliveryLen, MaxDeliveryLen) :
     \A i, j \in DOMAIN news_list : i # j => news_list[i] # news_list[j]}

PairsOf(news_list) ==
  {Sent(TargetChannels[c], news_list[i]) : c \in DOMAIN TargetChannels, i \in DOMAIN news_list}

\* A delivery about to run: official items with any outcome per channel and
\* item, or the report card with any outcome per channel.
DeliveryInit ==
  /\ news_cache = EmptyNewsCache
  /\ last_response = EmptyLastResponse
  /\ news_cache_file = NoFile(EmptyNewsCache)
  /\ last_response_file = NoFile(EmptyLastResponse)
  /\ sent_summaries = {}
  /\ now = 0
  /\ batch = <<>>
  /\ call = NoCalls
  /\ PollIdle
  /\ ReportIdle
  /\ selection = NoSelection
  /\ classified = NoClassified
  /\ \/ \E news_list \in NewsLists :
          \E outcome \in [PairsOf(news_list) -> SendOutcomes] :
            delivery = [op |-> "official", news_list |-> news_list, outcome |-> outcome,
                        sends |-> <<>>, done |-> FALSE]
     \/ \E outcome \in [PairsOf(<<NoId>>) -> {"sent", "send_failed"}] :
          delivery = [op |-> "report", news_list |-> <<NoId>>, outcome |-> outcome,
                      sends |-> <<>>, done |-> FALSE]

CallSendToChannels ==
  /\ delivery.op = "official"
  /\ ~delivery.done
  /\ delivery' =
       [delivery EXCEPT
          !.sends = SendToChannels(TargetChannels, delivery.news_list, delivery.outcome),
          !.done = TRUE]
  /\ UNCHANGED <<cacheVars, sent_summaries, now, batch, call, pollVars, reportVars,
                 selection, classified>>

CallSendReport ==
  /\ delivery.op = "report"
  /\ ~delivery.done
  /\ delivery' = [delivery EXCEPT !.sends = SendReport(TargetChannels, delivery.outcome),
                                  !.done = TRUE]
  /\ UNCHANGED <<cacheVars, sent_summaries, now, batch, call, pollVars, reportVars,
                 selection, classified>>

DeliveryNext == CallSendToChannels \/ CallSendReport

SpecDelivery == DeliveryInit /\ [][DeliveryNext]_vars

\* C25: a delivery calls channel.send once for every channel and every item,
\* channel after channel and item after item, whatever failed before; the
\* report card goes to every channel likewise.
C25_FailuresDoNotAbortSends ==
  (delivery.op # "none" /\ delivery.done) =>
    /\ Len(delivery.sends) = Len(TargetChannels) * Len(delivery.news_list)
    /\ \A c \in DOMAIN TargetChannels, i \in DOMAIN delivery.news_list :
         delivery.sends[(c - 1) * Len(delivery.news_list) + i]
           = Sent(TargetChannels[c], delivery.news_list[i])

\* Two items for two channels: the first send fails on both tries, a pin
\* raises on the second channel, and all four pairs are attempted.
C25_Witness ==
  /\ delivery.op = "official"
  /\ delivery.done
  /\ Len(delivery.news_list) = 2
  /\ delivery.outcome[delivery.sends[1]] = "send_failed"
  /\ delivery.outcome[delivery.sends[3]] = "pin_failed"
  /\ Len(delivery.sends) = 4

\* --------------------------------------------- cache files that cannot be written
\* Any cache manager; the caller holds any batch and calls the two methods on
\* it again and again, and each write of a cache file succeeds or fails.
SaveNext == CallGetNewNews \/ CallHasResponseChanged

SpecSave == ClearInit /\ [][SaveNext]_vars

\* C26: whether or not the cache file can be written, get_new_news returns the
\* first unseen items and keeps their identifiers in memory, and
\* has_response_changed answers by the fingerprint and keeps it in memory; the
\* same call repeated on the same batch returns the empty list, or false.
C26_WriteFailureKeepsResult ==
  [][/\ CallGetNewNews =>
          /\ call'.ret = Pick(batch, FirstUnseen(batch, news_cache.news_ids))
          /\ news_cache'.news_ids = news_cache.news_ids \cup IdsOf(call'.ret)
          /\ IdsOf(batch) \subseteq news_cache'.news_ids
          /\ call.op = "get_new_news" => call'.ret = <<>>
     /\ CallHasResponseChanged =>
          /\ call'.changed <=> GenerateResponseHash(batch) # last_response.response_hash
          /\ last_response'.response_hash = GenerateResponseHash(batch)
          /\ call.op = "has_response_changed" => ~call'.changed]_vars

\* Neither file could be written: the seen-set holds identifiers its file
\* lacks and the stored fingerprint is not the one on disk, after a second
\* get_new_news returned nothing new.
C26_Witness ==
  /\ call.op = "get_new_news"
  /\ call.ret = <<>>
  /\ call.prev.op = "get_new_news"
  /\ call.prev.ret # <<>>
  /\ news_cache.news_ids # news_cache_file.doc.news_ids
  /\ last_response.response_hash = GenerateResponseHash(batch)
  /\ last_response_file.doc.response_hash # GenerateResponseHash(batch)

\* ------------------------------------- the importance score, called directly
\* The largest like count of a scored post.
MaxScoreLikeCount == 10

ScoreViewCounts == {0, 9, 200, 499, 500, 1000}
ScoreCommentCounts == {0, 4}
ScoreTitles == {<<"rate">>, <<"FED">>, <<"fed", "fed">>, <<"fed", "ai">>, <<"said">>}
ScoreAges == {Missing, Unparsable, 10, 29, 30, 121}

ScoredPosts ==
  {[ReportPost(created_at, title, <<>>) EXCEPT !.like_count = like_count,
                                               !.view_count = view_count,
                                               !.comment_count = comment_count] :
     created_at \in ScoreAges, title \in ScoreTitles,
     like_count \in 0..MaxScoreLikeCount, view_count \in ScoreViewCounts,
     comment_count \in ScoreCommentCounts}

ScoreInit ==
  /\ news_cache = EmptyNewsCache
  /\ last_response = EmptyLastResponse
  /\ news_cache_file = NoFile(EmptyNewsCache)
  /\ last_response_file = NoFile(EmptyLastResponse)
  /\ sent_summaries = {}
  /\ now = 0
  /\ batch = <<>>
  /\ call = NoCalls
  /\ PollIdle
  /\ ReportIdle
  /\ classified = NoClassified
  /\ delivery = NoDelivery
  /\ \E post \in ScoredPosts :
       selection = [NoSelection EXCEPT !.op = "score", !.posts = <<post>>]

CallCalculateImportanceScore ==
  /\ selection.op = "score"
  /\ ~selection.done
  /\ selection' =
       [selection EXCEPT
          !.returned = <<[selection.posts[1] EXCEPT
                            !.importance_score =
                              CalculateImportanceScore(selection.posts[1])]>>,
          !.done = TRUE]
  /\ UNCHANGED <<cacheVars, sent_summaries, now, batch, call, pollVars, reportVars,
                 classified, delivery>>

ScoreNext == CallCalculateImportanceScore

SpecScore == ScoreInit /\ [][ScoreNext]_vars

Scored == selection.op = "score" /\ selection.done

Smaller(a, b) == IF a <= b THEN a ELSE b

\* The keywords found in the lower-cased title, each counted once.
KeywordsFound(title) ==
  {keyword \in ImportantKeywords :
     \E i \in DOMAIN title : Contains(LowerCased(title)[i], keyword)}

CreatedWithin(post, minutes) ==
  post.created_at \notin {Missing, Unparsable} /\ post.created_at < minutes

\* C27: the score is 3 per like, the smaller of a tenth of the views (rounded
\* down) and 50, 2 per comment, 10 per keyword found in the lower-cased title,
\* and 20 more for a post created less than 30 minutes ago; 10 likes, 200
\* views, 4 comments, one keyword and an age of 10 minutes make 88.
C27_ImportanceScore ==
  Scored =>
    LET post == selection.posts[1]
        score == selection.returned[1].importance_score
    IN /\ score = 3 * post.like_count
                    + Smaller(post.view_count \div 10, 50)
                    + 2 * post.comment_count
                    + 10 * Cardinality(KeywordsFound(post.title))
                    + (IF CreatedWithin(post, 30) THEN 20 ELSE 0)
       /\ ( /\ post.like_count = 10
            /\ post.view_count = 200
            /\ post.comment_count = 4
            /\ Cardinality(KeywordsFound(post.title)) = 1
            /\ post.created_at = 10 ) => score = 88

\* The example: 30 for the likes, 20 for the views, 8 for the comments, 10 for
\* the keyword, found twice and counted once, and 20 for the age.
C27_Witness ==
  /\ Scored
  /\ selection.posts[1].like_count = 10
  /\ selection.posts[1].view_count = 200
  /\ selection.posts[1].comment_count = 4
  /\ selection.posts[1].title = <<"fed", "fed">>
  /\ selection.posts[1].created_at = 10
  /\ selection.returned[1].importance_score = 88

\* ------------------------------------------------- the bot stopped and started
\* The process ends at any point of a cycle and NewsCacheManager.__init__ runs
\* again: each cache is read from its file, and is the empty default when the
\* file is absent or cannot be read. The summary marks are kept.
Restart ==
  /\ \E news_read, response_read \in BOOLEAN :
       /\ news_cache' = IF news_cache_file.exists /\ news_read
                        THEN news_cache_file.doc ELSE EmptyNewsCache
       /\ last_response' = IF last_response_file.exists /\ response_read
                           THEN last_response_file.doc ELSE EmptyLastResponse
  /\ pc' = "idle"
  /\ batch' = <<>>
  /\ todo' = <<>>
  /\ responses' = [community |-> NoAnswer, news |-> NoAnswer]
  /\ call' = NoCalls
  /\ attempts' = {}
  /\ UNCHANGED <<directVars, news_cache_file, last_response_file, sent_summaries, now,
                 summary_log, resent, official_log, reportVars>>

RestartNext == Next \/ Restart

SpecRestart == FreshInit /\ [][RestartNext]_vars

\* The identifiers of the official items of posts that are not in the seen-set.
UnseenOfficial(posts) == IdsOf(SelectSeq(posts, IsOfficial)) \ news_cache.news_ids

\* C28: the gate reports a change for every batch that holds an official item
\* whose identifier is not in the seen-set, get_new_news then returns that
\* item, and a send of it to every channel is attempted in the same cycle.
C28_UnseenOfficialAlwaysSent ==
  [][/\ (Gate /\ UnseenOfficial(batch) # {}) => call'.changed
     /\ Filter => UnseenOfficial(batch) \subseteq IdsOf(SelectSeq(call'.ret, IsOfficial))
     /\ SendOfficial =>
          \A id \in IdsOf(SelectSeq(call.ret, IsOfficial)), ch \in Channels :
            Attempt("official", id, ch) \in attempts']_vars

\* ------------------------------------------ claims on a fingerprint that fails
\* C29: has_response_changed returns true on every call in which computing the
\* fingerprint of the batch fails.
C29_FailedFingerprintAlwaysChanged ==
  [][(CallHasResponseChanged /\ SortRaises(batch)) => call'.changed]_vars

\* ------------------------------------- get_new_news on a batch it cannot handle
\* The batches with, beside the direct items, an item whose identifier is a
\* list.
MalformedBatches == SeqsUpTo(DirectItems \cup {Item(Unhashable, TitlePlain)}, MaxLen)

MalformedInit ==
  /\ \E S \in SUBSET Ids :
       /\ news_cache = SeenCache(S)
       /\ news_cache_file = IF S = {} THEN NoFile(EmptyNewsCache) ELSE FileOf(SeenCache(S))
  /\ last_response = EmptyLastResponse
  /\ last_response_file = NoFile(EmptyLastResponse)
  /\ now = 0
  /\ batch \in MalformedBatches
  /\ call = NoCalls
  /\ sent_summaries = {}
  /\ PollIdle
  /\ ReportIdle
  /\ DirectIdle

MalformedNext == CallGetNewNews

SpecMalformed == MalformedInit /\ [][MalformedNext]_vars

\* C30: every identifier a call of get_new_news adds to the seen-set is that
\* of an item in the list the call returns.
C30_SeenOnlyIfReported ==
  [][CallGetNewNews =>
       (news_cache'.news_ids \ news_cache.news_ids) \subseteq IdsOf(call'.ret)]_vars

====
